---- MODULE Spec2Model ----
(***************************************************************************)
(* Model of studyplace-io/cache-demo: the LRU engine (lruCache), the TTL   *)
(* engine (ttlCache) and the locking facade (Cache) that wraps one of      *)
(* them.  Engine operations are operators over an engine record; the       *)
(* actions apply them to the facade's Cache field.                         *)
(***************************************************************************)
EXTENDS Integers, Sequences, FiniteSets, TLC

\* ---------------------------------------------------------------- bounds
\* the largest maxEntries a cache is configured with, and the last clock tick
MaxCap == 2
MaxClock == 2
\* the number of goroutines that call the facade concurrently
MaxThreads == 2

\* callers use one key more than the largest capacity, so that every bounded
\* cache overflows; values are opaque to the code, two of them tell a replaced
\* value from the one it replaces
KeySet == 1..(MaxCap + 1)
ValueSet == {1, 2}
\* the configured TTL, in clock ticks
TTLSet == {1}
\* the zero values a Go map lookup or a bare `return` yields
NoKey == 0
NoValue == 0

\* time.Duration constants of cache.go; maxDuration (1<<63 - 1) is scaled to
\* an instant no model clock reaches
maxDuration == 1000000
defaultDuration == 10

VARIABLES
    Cache,      \* Cache.Cache: the engine (ICache) behind the facade
    Config,     \* Cache.Config: *CacheConfig
    now,        \* the clock read by time.Now()
    last,       \* the last completed engine operation and what it returned
    order,      \* history: present keys by last add or get-hit, latest first
    scen,       \* history: the distinct keys added so far to an empty cache
    fresh,      \* history: a newly constructed engine run alongside since clear
    lock,       \* Cache.lock: TRUE while the sync.Mutex is locked
    pc,         \* where each goroutine is in its facade call
    call,       \* the facade call each goroutine is making
    ret,        \* what each goroutine's call has to return, and the hooks it ran
    crashed,    \* an unrecovered panic has ended the process
    acq,        \* history: the goroutines in lock-acquisition order, not yet run
    serial,     \* history: the engine run one call at a time in that order
    sret        \* history: what each call returns in that run

facadeVars == <<lock, pc, call, ret, crashed, acq, serial, sret>>

histVars == <<last, order, scen, fresh>>

vars == <<Cache, Config, now, last, order, scen, fresh,
          lock, pc, call, ret, crashed, acq, serial, sret>>

Threads == 1..MaxThreads

\* ------------------------------------------------------------ entry
entry(key, ttl, value) == [key |-> key, ttl |-> ttl, value |-> value]

\* ------------------------------------------------------------ container/list
RemoveAt(s, i) == SubSeq(s, 1, i - 1) \o SubSeq(s, i + 1, Len(s))

\* the list element the map holds for key
ElementOf(ll, key) == CHOOSE i \in 1..Len(ll) : ll[i].key = key

MoveToFront(ll, i) == <<ll[i]>> \o RemoveAt(ll, i)

PushFront(ll, e) == <<e>> \o ll

\* ------------------------------------------------------------ lruCache
newLRU(maxEntries, expiry) ==
    [kind |-> "lru", maxEntries |-> maxEntries, ll |-> <<>>, cache |-> {},
     isNil |-> FALSE, expiry |-> expiry]

\* mutant: the element stays in the list when its key is deleted from the map
lruCache_removeElement_keepElement(c, i) ==
    [c EXCEPT !.cache = c.cache \ {c.ll[i].key}]

lruCache_removeElement(c, i) ==
    [c EXCEPT !.ll = RemoveAt(c.ll, i), !.cache = c.cache \ {c.ll[i].key}]

\* mutant: the front of the list is taken for the oldest element
lruCache_removeOldest_front(c) ==
    IF c.isNil THEN c
    ELSE IF Len(c.ll) > 0 THEN lruCache_removeElement(c, 1)
    ELSE c

lruCache_removeOldest(c) ==
    IF c.isNil THEN c
    ELSE IF Len(c.ll) > 0 THEN lruCache_removeElement(c, Len(c.ll))
    ELSE c

lruCache_remove(c, key) ==
    IF c.isNil THEN c
    ELSE IF key \in c.cache THEN lruCache_removeElement(c, ElementOf(c.ll, key))
    ELSE c

\* mutant: an add of a stored key updates the entry where it is in the list
lruCache_add_noMove(c, key, value, t) ==
    LET c1 == IF c.isNil THEN [c EXCEPT !.cache = {}, !.ll = <<>>, !.isNil = FALSE]
              ELSE c
    IN  IF key \in c1.cache
        THEN LET i == ElementOf(c1.ll, key)
             IN  [c1 EXCEPT !.ll = [c1.ll EXCEPT ![i] = entry(key, t + c1.expiry, value)]]
        ELSE LET c2 == [c1 EXCEPT !.ll = PushFront(c1.ll, entry(key, t + c1.expiry, value)),
                                  !.cache = c1.cache \cup {key}]
             IN  IF c2.maxEntries # 0 /\ Len(c2.ll) > c2.maxEntries
                 THEN lruCache_removeOldest(c2)
                 ELSE c2

\* mutant: the capacity test is off by one
lruCache_add_offByOne(c, key, value, t) ==
    LET c1 == IF c.isNil THEN [c EXCEPT !.cache = {}, !.ll = <<>>, !.isNil = FALSE]
              ELSE c
    IN  IF key \in c1.cache
        THEN LET i == ElementOf(c1.ll, key)
                 moved == MoveToFront(c1.ll, i)
             IN  [c1 EXCEPT !.ll = [moved EXCEPT ![1] = entry(key, t + c1.expiry, value)]]
        ELSE LET c2 == [c1 EXCEPT !.ll = PushFront(c1.ll, entry(key, t + c1.expiry, value)),
                                  !.cache = c1.cache \cup {key}]
             IN  IF c2.maxEntries # 0 /\ Len(c2.ll) > c2.maxEntries + 1
                 THEN lruCache_removeOldest(c2)
                 ELSE c2

lruCache_add(c, key, value, t) ==
    LET c1 == IF c.isNil THEN [c EXCEPT !.cache = {}, !.ll = <<>>, !.isNil = FALSE]
              ELSE c
    IN  IF key \in c1.cache
        THEN LET i == ElementOf(c1.ll, key)
                 moved == MoveToFront(c1.ll, i)
             IN  [c1 EXCEPT !.ll = [moved EXCEPT ![1] = entry(key, t + c1.expiry, value)]]
        ELSE LET c2 == [c1 EXCEPT !.ll = PushFront(c1.ll, entry(key, t + c1.expiry, value)),
                                  !.cache = c1.cache \cup {key}]
             IN  IF c2.maxEntries # 0 /\ Len(c2.ll) > c2.maxEntries
                 THEN lruCache_removeOldest(c2)
                 ELSE c2

lruCache_size(c) == IF c.isNil THEN 0 ELSE Len(c.ll)

\* mutant: a hit leaves the element where it is in the list
lruCache_get_noMove(c, key, t) ==
    IF c.isNil THEN [c |-> c, value |-> NoValue, ok |-> FALSE]
    ELSE IF key \in c.cache
    THEN LET i == ElementOf(c.ll, key)
         IN  IF t > c.ll[i].ttl
             THEN [c |-> lruCache_remove(c, key), value |-> NoValue, ok |-> FALSE]
             ELSE [c |-> c, value |-> c.ll[i].value, ok |-> TRUE]
    ELSE [c |-> c, value |-> NoValue, ok |-> FALSE]

\* get returns the engine after the call with the two results
lruCache_get(c, key, t) ==
    IF c.isNil THEN [c |-> c, value |-> NoValue, ok |-> FALSE]
    ELSE IF key \in c.cache
    THEN LET i == ElementOf(c.ll, key)
         IN  IF t > c.ll[i].ttl
             THEN [c |-> lruCache_remove(c, key), value |-> NoValue, ok |-> FALSE]
             ELSE [c |-> [c EXCEPT !.ll = MoveToFront(c.ll, i)],
                   value |-> c.ll[i].value, ok |-> TRUE]
    ELSE [c |-> c, value |-> NoValue, ok |-> FALSE]

\* mutant: the map is emptied and the list is kept
lruCache_clear_keepList(c) == [c EXCEPT !.cache = {}]

lruCache_clear(c) == [c EXCEPT !.ll = <<>>, !.cache = {}, !.isNil = TRUE]

\* ------------------------------------------------------------ ttlCache
EmptyMap == [x \in {} |-> 0]

MapDelete(m, k) == [x \in (DOMAIN m) \ {k} |-> m[x]]

MapPut(m, k, v) == [x \in (DOMAIN m) \cup {k} |-> IF x = k THEN v ELSE m[x]]

newTTLCache(maxEntries, expiry, updateAgeOnGet) ==
    [kind |-> "ttl", maxEntries |-> maxEntries, updateAgeOnGet |-> updateAgeOnGet,
     cache |-> EmptyMap, expiration |-> EmptyMap, isNil |-> FALSE, expiry |-> expiry]

\* mutant: the entry's instant stays in the expiry index
ttlCache_removeElement_keepIndex(c, e) ==
    [c EXCEPT !.cache = MapDelete(c.cache, e.key)]

ttlCache_removeElement(c, e) ==
    [c EXCEPT !.expiration = MapDelete(c.expiration, e.ttl),
              !.cache = MapDelete(c.cache, e.key)]

ttlCache_remove(c, key) ==
    IF c.isNil THEN c
    ELSE IF key \in DOMAIN c.cache THEN ttlCache_removeElement(c, c.cache[key])
    ELSE c

\* mutant: the old instant stays in the expiry index
ttlCache_changeTTL_keepOld(c, key, t) ==
    IF key \in DOMAIN c.cache
    THEN LET ee == c.cache[key]
             exp == t + c.expiry
         IN  [c EXCEPT !.expiration = MapPut(c.expiration, exp, key),
                       !.cache = MapPut(c.cache, key, [ee EXCEPT !.ttl = exp])]
    ELSE c

ttlCache_changeTTL(c, key, t) ==
    IF key \in DOMAIN c.cache
    THEN LET ee == c.cache[key]
             exp == t + c.expiry
         IN  [c EXCEPT !.expiration = MapPut(MapDelete(c.expiration, ee.ttl), exp, key),
                       !.cache = MapPut(c.cache, key, [ee EXCEPT !.ttl = exp])]
    ELSE c

\* sort.Slice(expKeys, <): the instants of s in ascending order
RECURSIVE SortAscending(_)
SortAscending(s) ==
    IF s = {} THEN <<>>
    ELSE LET m == CHOOSE x \in s : \A y \in s : x <= y
         IN  <<m>> \o SortAscending(s \ {m})

\* mutant: the loop stops at the first instant still in the future, whatever
\* the size
RECURSIVE purgeLoop_expiredOnly(_, _, _)
purgeLoop_expiredOnly(c, expKeys, t) ==
    IF expKeys = <<>> THEN c
    ELSE LET k == Head(expKeys)
         IN  IF k > t
             THEN c
             ELSE LET key == IF k \in DOMAIN c.expiration THEN c.expiration[k] ELSE NoKey
                  IN  purgeLoop_expiredOnly(ttlCache_remove(c, key), Tail(expKeys), t)

\* the range loop of purgeToCapacity over the sorted instants
RECURSIVE purgeLoop(_, _, _)
purgeLoop(c, expKeys, t) ==
    IF expKeys = <<>> THEN c
    ELSE LET k == Head(expKeys)
         IN  IF Cardinality(DOMAIN c.cache) <= c.maxEntries /\ k > t
             THEN c
             ELSE LET key == IF k \in DOMAIN c.expiration THEN c.expiration[k] ELSE NoKey
                  IN  purgeLoop(ttlCache_remove(c, key), Tail(expKeys), t)

ttlCache_purgeToCapacity(c, t) == purgeLoop(c, SortAscending(DOMAIN c.expiration), t)

\* mutant: an add of a stored key refreshes the expiry and keeps the old value
ttlCache_add_keepValue(c, key, value, t) ==
    LET c1 == IF c.isNil
              THEN [c EXCEPT !.cache = EmptyMap, !.expiration = EmptyMap, !.isNil = FALSE]
              ELSE c
    IN  IF key \in DOMAIN c1.cache
        THEN ttlCache_changeTTL(c1, key, t)
        ELSE LET ele == entry(key, t + c1.expiry, value)
                 c2 == [c1 EXCEPT !.cache = MapPut(c1.cache, key, ele),
                                  !.expiration = MapPut(c1.expiration, ele.ttl, key)]
             IN  IF c2.maxEntries # 0 /\ Cardinality(DOMAIN c2.cache) > c2.maxEntries
                 THEN ttlCache_purgeToCapacity(c2, t)
                 ELSE c2

ttlCache_add(c, key, value, t) ==
    LET c1 == IF c.isNil
              THEN [c EXCEPT !.cache = EmptyMap, !.expiration = EmptyMap, !.isNil = FALSE]
              ELSE c
    IN  IF key \in DOMAIN c1.cache
        THEN ttlCache_changeTTL(
                 [c1 EXCEPT !.cache = MapPut(c1.cache, key, [c1.cache[key] EXCEPT !.value = value])],
                 key, t)
        ELSE LET ele == entry(key, t + c1.expiry, value)
                 c2 == [c1 EXCEPT !.cache = MapPut(c1.cache, key, ele),
                                  !.expiration = MapPut(c1.expiration, ele.ttl, key)]
             IN  IF c2.maxEntries # 0 /\ Cardinality(DOMAIN c2.cache) > c2.maxEntries
                 THEN ttlCache_purgeToCapacity(c2, t)
                 ELSE c2

ttlCache_size(c) == IF c.isNil THEN 0 ELSE Cardinality(DOMAIN c.cache)

\* mutant: an entry counts as expired at its expiry instant already
ttlCache_get_expiredAt(c, key, t) ==
    IF c.isNil THEN [c |-> c, value |-> NoValue, ok |-> FALSE]
    ELSE IF key \in DOMAIN c.cache
    THEN LET ele == c.cache[key]
         IN  IF t >= ele.ttl
             THEN [c |-> ttlCache_remove(c, key), value |-> NoValue, ok |-> FALSE]
             ELSE [c |-> IF c.updateAgeOnGet THEN ttlCache_changeTTL(c, key, t) ELSE c,
                   value |-> ele.value, ok |-> TRUE]
    ELSE [c |-> c, value |-> NoValue, ok |-> FALSE]

\* mutant: a hit refreshes the expiry whatever updateAgeOnGet says
ttlCache_get_alwaysRefresh(c, key, t) ==
    IF c.isNil THEN [c |-> c, value |-> NoValue, ok |-> FALSE]
    ELSE IF key \in DOMAIN c.cache
    THEN LET ele == c.cache[key]
         IN  IF t > ele.ttl
             THEN [c |-> ttlCache_remove(c, key), value |-> NoValue, ok |-> FALSE]
             ELSE [c |-> ttlCache_changeTTL(c, key, t), value |-> ele.value, ok |-> TRUE]
    ELSE [c |-> c, value |-> NoValue, ok |-> FALSE]

ttlCache_get(c, key, t) ==
    IF c.isNil THEN [c |-> c, value |-> NoValue, ok |-> FALSE]
    ELSE IF key \in DOMAIN c.cache
    THEN LET ele == c.cache[key]
         IN  IF t > ele.ttl
             THEN [c |-> ttlCache_remove(c, key), value |-> NoValue, ok |-> FALSE]
             ELSE [c |-> IF c.updateAgeOnGet THEN ttlCache_changeTTL(c, key, t) ELSE c,
                   value |-> ele.value, ok |-> TRUE]
    ELSE [c |-> c, value |-> NoValue, ok |-> FALSE]

ttlCache_clear(c) == [c EXCEPT !.cache = EmptyMap, !.expiration = EmptyMap, !.isNil = TRUE]

\* ------------------------------------------------------------ ICache
ICache_add(c, key, value, t) ==
    IF c.kind = "lru" THEN lruCache_add(c, key, value, t) ELSE ttlCache_add(c, key, value, t)

ICache_size(c) == IF c.kind = "lru" THEN lruCache_size(c) ELSE ttlCache_size(c)

ICache_get(c, key, t) ==
    IF c.kind = "lru" THEN lruCache_get(c, key, t) ELSE ttlCache_get(c, key, t)

ICache_remove(c, key) ==
    IF c.kind = "lru" THEN lruCache_remove(c, key) ELSE ttlCache_remove(c, key)

ICache_clear(c) == IF c.kind = "lru" THEN lruCache_clear(c) ELSE ttlCache_clear(c)

\* ------------------------------------------------------------ CacheConfig
NewCacheConfig(TTL, maxEntries, callbacks) ==
    [TTL |-> TTL, MaxEntries |-> maxEntries, Callbacks |-> callbacks]

LRUCacheMode(cc) == newLRU(cc.MaxEntries, maxDuration)

LRUWithTTLCacheMode(cc) ==
    newLRU(cc.MaxEntries, IF cc.TTL = 0 THEN defaultDuration ELSE cc.TTL)

TTLCacheMode(cc, updateAgeOnGet) ==
    newTTLCache(cc.MaxEntries, IF cc.TTL = 0 THEN defaultDuration ELSE cc.TTL, updateAgeOnGet)

\* ------------------------------------------------------------ history
StoredKeys(c) == IF c.kind = "lru" THEN c.cache ELSE DOMAIN c.cache

Reconstruct(c) ==
    IF c.kind = "lru" THEN newLRU(c.maxEntries, c.expiry)
    ELSE newTTLCache(c.maxEntries, c.expiry, c.updateAgeOnGet)

\* the touch order after key was added or hit, kept for the keys still stored
Touch(key, c) ==
    IF c.kind = "lru"
    THEN SelectSeq(<<key>> \o SelectSeq(order, LAMBDA k : k # key),
                   LAMBDA k : k \in StoredKeys(c))
    ELSE <<>>

Keep(c) == SelectSeq(order, LAMBDA k : k \in StoredKeys(c))

\* the entries an engine holds
EntriesOf(c) ==
    IF c.kind = "lru" THEN {c.ll[i] : i \in 1..Len(c.ll)}
    ELSE {c.cache[k] : k \in DOMAIN c.cache}

\* the entries of c, and the one add(key, value) creates, that d no longer holds
Evicted(c, d, added) == {e \in EntriesOf(c) \cup added : e.key \notin StoredKeys(d)}

\* the key of the get-hit that the last operation recorded, if it was one
HitOf(r) == IF r.op = "get" /\ r.ok THEN r.key ELSE NoKey

\* the entry an engine holds for a stored key
EntryOf(c, key) == IF c.kind = "lru" THEN c.ll[ElementOf(c.ll, key)] ELSE c.cache[key]

\* what a call leaves in last: the call and its results (value, ok of get, n of
\* size), the entries it removed, for a get the expiry the key had before, and
\* in prev the call before it when that bears on this one: for an add the key
\* of a get-hit, for a get the key if it was just added
Result(op, key, arg, value, ok, n, evicted, old, prev) ==
    [op |-> op, key |-> key, arg |-> arg, value |-> value, ok |-> ok, n |-> n,
     evicted |-> evicted, old |-> old, prev |-> prev]

AddedOf(r, key) == IF r.op = "add" /\ r.key = key THEN key ELSE NoKey

Shadow(on, c, value, ok, n) == [on |-> on, c |-> c, value |-> value, ok |-> ok, n |-> n]

Callbacks(isNil, addFunc, getFunc, removeFunc) ==
    [isNil |-> isNil, AddFunc |-> addFunc, GetFunc |-> getFunc, RemoveFunc |-> removeFunc]

\* ------------------------------------------------------------ Cache (facade)
NoCall == [op |-> "none", key |-> NoKey, value |-> NoValue]

NoRet == [value |-> NoValue, ok |-> FALSE, n |-> 0, hooks |-> 0]

\* no goroutine is in a call and the mutex is unlocked
FacadeIdle ==
    /\ lock = FALSE
    /\ pc = [t \in Threads |-> "idle"]
    /\ call = [t \in Threads |-> NoCall]
    /\ ret = [t \in Threads |-> NoRet]
    /\ crashed = FALSE
    /\ acq = <<>>
    /\ serial = Cache
    /\ sret = [t \in Threads |-> NoRet]

\* the engine call a facade call delegates to: the engine after it and the
\* results
Apply(c, cl, t) ==
    CASE cl.op = "add" ->
            [c |-> ICache_add(c, cl.key, cl.value, t), value |-> NoValue, ok |-> FALSE, n |-> 0]
      [] cl.op = "get" ->
            LET r == ICache_get(c, cl.key, t)
            IN  [c |-> r.c, value |-> r.value, ok |-> r.ok, n |-> 0]
      [] cl.op = "remove" ->
            [c |-> ICache_remove(c, cl.key), value |-> NoValue, ok |-> FALSE, n |-> 0]
      [] cl.op = "size" ->
            [c |-> c, value |-> NoValue, ok |-> FALSE, n |-> ICache_size(c)]
      [] cl.op = "clear" ->
            [c |-> ICache_clear(c), value |-> NoValue, ok |-> FALSE, n |-> 0]

\* the user function behind the hook of a call is set
HookSet(cb, op) ==
    CASE op = "add" -> cb.AddFunc
      [] op = "get" -> cb.GetFunc
      [] op = "remove" -> cb.RemoveFunc
      [] OTHER -> FALSE

\* a goroutine calls Add, Size, Get, Remove or Clear
Invoke(t, op, key, value) ==
    /\ ~crashed
    /\ pc[t] = "idle"
    /\ pc' = [pc EXCEPT ![t] = "lock"]
    /\ call' = [call EXCEPT ![t] = [op |-> op, key |-> key, value |-> value]]
    /\ UNCHANGED <<Cache, Config, now, histVars, lock, ret, crashed, acq, serial, sret>>

\* mutant: Lock returns without waiting for the mutex to be unlocked
Lock_noWait(t) ==
    /\ ~crashed
    /\ pc[t] = "lock"
    /\ lock' = TRUE
    /\ pc' = [pc EXCEPT ![t] = IF call[t].op = "get" THEN "callback" ELSE "engine"]
    /\ acq' = Append(acq, t)
    /\ UNCHANGED <<Cache, Config, now, histVars, call, ret, crashed, serial, sret>>

\* c.lock.Lock() returns once the mutex is unlocked; Get runs its hook first
Lock(t) ==
    /\ ~crashed
    /\ pc[t] = "lock"
    /\ lock = FALSE
    /\ lock' = TRUE
    /\ pc' = [pc EXCEPT ![t] = IF call[t].op = "get" THEN "callback" ELSE "engine"]
    /\ acq' = Append(acq, t)
    /\ UNCHANGED <<Cache, Config, now, histVars, call, ret, crashed, serial, sret>>

\* c.Cache.add / size / get / remove / clear; the one-at-a-time run makes the
\* call of the goroutine that acquired the lock first
Engine(t) ==
    /\ ~crashed
    /\ pc[t] = "engine"
    /\ LET r == Apply(Cache, call[t], now)
           h == Head(acq)
           q == Apply(serial, call[h], now)
       IN  /\ Cache' = r.c
           /\ ret' = [ret EXCEPT ![t] = [@ EXCEPT !.value = r.value, !.ok = r.ok, !.n = r.n]]
           /\ serial' = q.c
           /\ sret' = [sret EXCEPT ![h] = [@ EXCEPT !.value = q.value, !.ok = q.ok, !.n = q.n]]
           /\ acq' = Tail(acq)
    /\ pc' = [pc EXCEPT ![t] = IF call[t].op \in {"add", "remove"} THEN "callback" ELSE "unlock"]
    /\ UNCHANGED <<Config, now, histVars, lock, call, crashed>>

\* mutant: the hook is tested and never run
Callback_notRun(t) ==
    /\ ~crashed
    /\ pc[t] = "callback"
    /\ IF Config.Callbacks.isNil
       THEN pc' = [pc EXCEPT ![t] = "panic"]
       ELSE pc' = [pc EXCEPT ![t] = IF call[t].op = "get" THEN "engine" ELSE "unlock"]
    /\ UNCHANGED <<Cache, Config, now, histVars, lock, call, ret, crashed, acq, serial, sret>>

\* if c.Config.Callbacks.OnX != nil { c.Config.Callbacks.OnX() }: the method
\* value of a nil interface panics; OnX runs the user function when it is set
Callback(t) ==
    /\ ~crashed
    /\ pc[t] = "callback"
    /\ IF Config.Callbacks.isNil
       THEN /\ pc' = [pc EXCEPT ![t] = "panic"]
            /\ ret' = ret
       ELSE /\ pc' = [pc EXCEPT ![t] = IF call[t].op = "get" THEN "engine" ELSE "unlock"]
            /\ ret' = [ret EXCEPT ![t].hooks =
                           IF HookSet(Config.Callbacks, call[t].op) THEN @ + 1 ELSE @]
    /\ UNCHANGED <<Cache, Config, now, histVars, lock, call, crashed, acq, serial, sret>>

\* defer c.lock.Unlock() on return: the call hands its results to the caller
Unlock(t) ==
    /\ ~crashed
    /\ pc[t] = "unlock"
    /\ lock' = FALSE
    /\ pc' = [pc EXCEPT ![t] = "idle"]
    /\ call' = [call EXCEPT ![t] = NoCall]
    /\ ret' = [ret EXCEPT ![t] = NoRet]
    /\ sret' = [sret EXCEPT ![t] = NoRet]
    /\ UNCHANGED <<Cache, Config, now, histVars, crashed, acq, serial>>

\* defer c.lock.Unlock() on a panic; the caller recovers or the process ends
Unwind(t) ==
    /\ ~crashed
    /\ pc[t] = "panic"
    /\ lock' = FALSE
    /\ \E recovered \in BOOLEAN :
          /\ crashed' = ~recovered
          /\ pc' = [pc EXCEPT ![t] = IF recovered THEN "idle" ELSE "panic"]
    /\ call' = [call EXCEPT ![t] = NoCall]
    /\ ret' = [ret EXCEPT ![t] = NoRet]
    /\ sret' = [sret EXCEPT ![t] = NoRet]
    /\ acq' = SelectSeq(acq, LAMBDA u : u # t)
    /\ UNCHANGED <<Cache, Config, now, histVars, serial>>

\* time passes while goroutines run
FacadeTick ==
    /\ ~crashed
    /\ now < MaxClock
    /\ now' = now + 1
    /\ UNCHANGED <<Cache, Config, histVars, facadeVars>>

\* ------------------------------------------------------------ one caller
InitModes(modes, caps) ==
    /\ \E maxEntries \in caps, TTL \in TTLSet, mode \in modes :
          /\ Config = NewCacheConfig(TTL, maxEntries, Callbacks(FALSE, TRUE, TRUE, TRUE))
          /\ Cache = CASE mode = 1 -> LRUCacheMode(Config)
                       [] mode = 2 -> LRUWithTTLCacheMode(Config)
                       [] mode = 3 -> TTLCacheMode(Config, FALSE)
                       [] mode = 4 -> TTLCacheMode(Config, TRUE)
    /\ now = 0
    /\ last = Result("new", NoKey, NoValue, NoValue, FALSE, 0, {}, 0, NoKey)
    /\ order = <<>>
    /\ scen = [on |-> TRUE, adds |-> <<>>]
    /\ fresh = Shadow(FALSE, Cache, NoValue, FALSE, 0)
    /\ FacadeIdle

\* an unbounded engine (maxEntries = 0) is explored up to MaxCap + 1 entries
Add(key, value) ==
    /\ Cache.maxEntries = 0 =>
          key \in StoredKeys(Cache) \/ Cardinality(StoredKeys(Cache)) <= MaxCap
    /\ Cache' = ICache_add(Cache, key, value, now)
    /\ last' = Result("add", key, value, NoValue, FALSE, 0,
                       Evicted(Cache, Cache',
                               IF key \in StoredKeys(Cache) THEN {}
                               ELSE {entry(key, now + Cache.expiry, value)}),
                       0, HitOf(last))
    /\ order' = Touch(key, Cache')
    /\ scen' = IF scen.on /\ Len(scen.adds) <= Cache.maxEntries
                  /\ \A i \in 1..Len(scen.adds) : scen.adds[i] # key
               THEN [scen EXCEPT !.adds = Append(scen.adds, key)]
               ELSE [on |-> FALSE, adds |-> <<>>]
    /\ fresh' = IF fresh.on
                THEN Shadow(TRUE, ICache_add(fresh.c, key, value, now), NoValue, FALSE, 0)
                ELSE fresh
    /\ UNCHANGED <<Config, now, facadeVars>>

Size ==
    /\ last' = Result("size", NoKey, NoValue, NoValue, FALSE, ICache_size(Cache), {}, 0, NoKey)
    /\ fresh' = IF fresh.on
                THEN Shadow(TRUE, fresh.c, NoValue, FALSE, ICache_size(fresh.c))
                ELSE fresh
    /\ UNCHANGED <<Cache, Config, now, order, scen, facadeVars>>

Get(key) ==
    LET r == ICache_get(Cache, key, now)
        f == ICache_get(fresh.c, key, now)
    IN  /\ Cache' = r.c
        /\ last' = Result("get", key, NoValue, r.value, r.ok, 0, Evicted(Cache, Cache', {}),
                         IF key \in StoredKeys(Cache) THEN EntryOf(Cache, key).ttl ELSE 0,
                         AddedOf(last, key))
        /\ order' = IF r.ok THEN Touch(key, Cache') ELSE Keep(Cache')
        /\ scen' = [on |-> FALSE, adds |-> <<>>]
        /\ fresh' = IF fresh.on THEN Shadow(TRUE, f.c, f.value, f.ok, 0) ELSE fresh
        /\ UNCHANGED <<Config, now, facadeVars>>

Remove(key) ==
    /\ Cache' = ICache_remove(Cache, key)
    /\ last' = Result("remove", key, NoValue, NoValue, FALSE, 0, {}, 0, NoKey)
    /\ order' = Keep(Cache')
    /\ scen' = [on |-> FALSE, adds |-> <<>>]
    /\ fresh' = IF fresh.on
                THEN Shadow(TRUE, ICache_remove(fresh.c, key), NoValue, FALSE, 0)
                ELSE fresh
    /\ UNCHANGED <<Config, now, facadeVars>>

Clear ==
    /\ Cache' = ICache_clear(Cache)
    /\ last' = Result("clear", NoKey, NoValue, NoValue, FALSE, 0, {}, 0, NoKey)
    /\ order' = <<>>
    /\ scen' = [on |-> TRUE, adds |-> <<>>]
    /\ fresh' = Shadow(TRUE, Reconstruct(Cache), NoValue, FALSE, 0)
    /\ UNCHANGED <<Config, now, facadeVars>>

\* mutant: a sweeper drops the entries that have expired as time passes
Tick_sweep ==
    /\ now < MaxClock
    /\ now' = now + 1
    /\ Cache' = IF Cache.kind = "lru"
                THEN LET ll == SelectSeq(Cache.ll, LAMBDA e : e.ttl >= now')
                     IN  [Cache EXCEPT !.ll = ll,
                                       !.cache = {ll[i].key : i \in 1..Len(ll)}]
                ELSE [Cache EXCEPT
                         !.cache = [k \in {x \in DOMAIN Cache.cache : Cache.cache[x].ttl >= now'}
                                       |-> Cache.cache[k]],
                         !.expiration = [i \in {x \in DOMAIN Cache.expiration : x >= now'}
                                            |-> Cache.expiration[i]]]
    /\ UNCHANGED <<Config, last, order, scen, fresh, facadeVars>>

\* time passes between two calls
Tick ==
    /\ now < MaxClock
    /\ now' = now + 1
    /\ UNCHANGED <<Cache, Config, last, order, scen, fresh, facadeVars>>

\* the calls one caller makes, with keys and values drawn from the given sets
Calls(keys, values) ==
    \/ \E key \in keys, value \in values : Add(key, value)
    \/ Size
    \/ \E key \in keys : Get(key)
    \/ \E key \in keys : Remove(key)
    \/ Clear
    \/ Tick

\* every mode, small capacities, two keys and two values: what a call returns
Init == InitModes(1..4, {0, 1})

Next == Calls({1, 2}, ValueSet)

Spec == Init /\ [][Next]_vars

\* the LRU engine, without and with a TTL, every capacity and key, one value
InitLRU == InitModes({1, 2}, 0..MaxCap)

NextLRU == Calls(KeySet, {1})

SpecLRU == InitLRU /\ [][NextLRU]_vars

\* the TTL engine, without and with updateAgeOnGet, every capacity and key,
\* one value
InitTTL == InitModes({3, 4}, 0..MaxCap)

NextTTL == Calls(KeySet, {1})

SpecTTL == InitTTL /\ [][NextTTL]_vars

\* several goroutines share one Cache: an LRU-with-TTL or a TTL engine of
\* capacity 1, with no callback handler, with a handler whose functions are all
\* set, or with one whose functions are all nil
FacadeInit ==
    /\ \E mode \in {2, 4},
          cb \in {Callbacks(TRUE, FALSE, FALSE, FALSE), Callbacks(FALSE, TRUE, TRUE, TRUE),
                  Callbacks(FALSE, FALSE, FALSE, FALSE)} :
          /\ Config = NewCacheConfig(1, 1, cb)
          /\ Cache = IF mode = 2 THEN LRUWithTTLCacheMode(Config)
                     ELSE TTLCacheMode(Config, TRUE)
    /\ now = 0
    /\ last = Result("new", NoKey, NoValue, NoValue, FALSE, 0, {}, 0, NoKey)
    /\ order = <<>>
    /\ scen = [on |-> TRUE, adds |-> <<>>]
    /\ fresh = Shadow(FALSE, Cache, NoValue, FALSE, 0)
    /\ FacadeIdle

FacadeNext ==
    \/ \E t \in Threads, op \in {"add", "get", "remove"}, key \in {1, 2} :
          Invoke(t, op, key, IF op = "add" THEN 1 ELSE NoValue)
    \/ \E t \in Threads, op \in {"size", "clear"} : Invoke(t, op, NoKey, NoValue)
    \/ \E t \in Threads : Lock(t)
    \/ \E t \in Threads : Engine(t)
    \/ \E t \in Threads : Callback(t)
    \/ \E t \in Threads : Unlock(t)
    \/ \E t \in Threads : Unwind(t)
    \/ FacadeTick

FacadeSpec == FacadeInit /\ [][FacadeNext]_vars

\* ------------------------------------------------------------ properties
IsLRU == Cache.kind = "lru"

\* the step is a call of op: every call records itself in last, and only Tick
\* moves the clock
Did(op) == now' = now /\ last'.op = op

IsTTL == Cache.kind = "ttl"

\* C1: LRU engine, maxEntries = N > 0: while distinct keys are added to an
\* empty cache with no get or remove in between, the first N adds evict
\* nothing, and the add of key N+1 evicts exactly the first-added key: the size
\* is N, the first-added key is absent, the other N keys are present.
C1_FirstAddedEvicted ==
    (IsLRU /\ Cache.maxEntries > 0 /\ scen.on) =>
        LET n == Len(scen.adds)
            N == Cache.maxEntries
        IN  /\ n <= N =>
                /\ ICache_size(Cache) = n
                /\ \A i \in 1..n : scen.adds[i] \in StoredKeys(Cache)
            /\ n = N + 1 =>
                /\ ICache_size(Cache) = N
                /\ scen.adds[1] \notin StoredKeys(Cache)
                /\ \A i \in 2..n : scen.adds[i] \in StoredKeys(Cache)
                /\ last.op = "add" => {e.key : e \in last.evicted} = {scen.adds[1]}

C1_Witness ==
    /\ IsLRU /\ Cache.maxEntries = 2 /\ scen.on
    /\ Len(scen.adds) = 3
    /\ last.op = "add" /\ last.key = scen.adds[3]

\* C2: LRU engine, maxEntries = N >= 2: a get that hits K puts K at the front
\* of the recency list, and an add of a new key to a full cache evicts exactly
\* the stored key whose last add or get-hit is the oldest, which is never the
\* key hit by the get just before that add.
C2_Step ==
    /\ (Did("get") /\ last'.ok /\ IsLRU) => Cache'.ll[1].key = last'.key
    /\ (/\ Did("add")
        /\ IsLRU /\ Cache.maxEntries >= 2
        /\ last'.key \notin StoredKeys(Cache)
        /\ Cardinality(StoredKeys(Cache)) = Cache.maxEntries)
       => /\ StoredKeys(Cache') =
                 (StoredKeys(Cache) \cup {last'.key}) \ {order[Len(order)]}
          /\ HitOf(last) # NoKey => HitOf(last) \in StoredKeys(Cache')

C2_GetHitProtects == [][C2_Step]_vars

C2_Witness ==
    /\ IsLRU /\ Cache.maxEntries = 2
    /\ last.op = "add" /\ last.prev # NoKey
    /\ last.evicted # {}
    /\ last.prev \in StoredKeys(Cache)

\* C3: LRU engine, with or without TTL, maxEntries = N > 0: in every reachable
\* state the recency list and the key map hold at most N entries.
C3_LRUWithinCapacity ==
    (IsLRU /\ Cache.maxEntries > 0) =>
        /\ Len(Cache.ll) <= Cache.maxEntries
        /\ Cardinality(Cache.cache) <= Cache.maxEntries
        /\ ICache_size(Cache) <= Cache.maxEntries

C3_Witness ==
    /\ IsLRU /\ Cache.maxEntries = 2 /\ Cache.expiry # maxDuration
    /\ last.op = "add" /\ last.evicted # {}
    /\ Len(Cache.ll) = 2

\* C4: TTL engine, maxEntries = N > 0: in every reachable state, hence after
\* every completed add, also when several adds or refreshes fall within one
\* clock tick, the primary store holds at most N entries.
C4_TTLWithinCapacity ==
    (IsTTL /\ Cache.maxEntries > 0) =>
        /\ Cardinality(DOMAIN Cache.cache) <= Cache.maxEntries
        /\ ICache_size(Cache) <= Cache.maxEntries

\* an add has purged while two stored entries share one expiry instant
C4_Witness ==
    /\ IsTTL /\ Cache.maxEntries = 2
    /\ last.op = "add" /\ last.evicted # {}
    /\ Cardinality(DOMAIN Cache.cache) = 2
    /\ \E j, k \in DOMAIN Cache.cache : j # k /\ Cache.cache[j].ttl = Cache.cache[k].ttl

\* C5: TTL engine: right after an add that purged, no stored entry is expired
\* and no stored entry expires strictly earlier than an entry the purge evicted.
C5_Step ==
    (Did("add") /\ IsTTL /\ last'.evicted # {}) =>
        \A e \in EntriesOf(Cache') :
            /\ ~(now' > e.ttl)
            /\ \A v \in last'.evicted : ~(e.ttl < v.ttl)

C5_PurgeInExpiryOrder == [][C5_Step]_vars

\* C6: every mode with a finite TTL d: an add of K at time t leaves K, when
\* stored, with expiry t + d; a get of a stored K at a time not after its expiry
\* returns K's value and found and keeps K; a get strictly after the expiry
\* returns not-found and removes K, so the size is one less; size() returns the
\* number of stored keys.
FiniteTTL == Cache.expiry # maxDuration

C6_Step ==
    /\ (Did("add") /\ FiniteTTL /\ last'.key \in StoredKeys(Cache')) =>
           EntryOf(Cache', last'.key).ttl = now + Cache.expiry
    /\ (Did("get") /\ FiniteTTL /\ last'.key \in StoredKeys(Cache)) =>
           LET e == EntryOf(Cache, last'.key)
           IN  IF now <= e.ttl
               THEN /\ last'.ok /\ last'.value = e.value
                    /\ last'.key \in StoredKeys(Cache')
                    /\ ICache_size(Cache') = ICache_size(Cache)
               ELSE /\ ~last'.ok
                    /\ last'.key \notin StoredKeys(Cache')
                    /\ ICache_size(Cache') = ICache_size(Cache) - 1
    /\ (Did("size") /\ FiniteTTL) => last'.n = Cardinality(StoredKeys(Cache))

C6_ExpiryOnGet == [][C6_Step]_vars

\* a get found its key expired and removed it, one other key staying stored
C6_Witness ==
    /\ FiniteTTL /\ last.op = "get" /\ ~last.ok
    /\ \E e \in last.evicted : e.key = last.key /\ e.ttl < now
    /\ ICache_size(Cache) = 1

\* C7: TTL engine with updateAgeOnGet: a get of K that hits at time t1 sets K's
\* expiry to t1 + d, registers that instant for K in the expiry index and
\* removes the old instant from it; and a get of a stored K at a time not after
\* K's expiry hits, so K stays found until t1 + d.
C7_Step ==
    (Did("get") /\ IsTTL /\ Cache.updateAgeOnGet /\ last'.key \in StoredKeys(Cache)) =>
        LET key == last'.key
            old == Cache.cache[key].ttl
            new == now + Cache.expiry
        IN  /\ now <= old => last'.ok
            /\ last'.ok =>
                /\ key \in StoredKeys(Cache')
                /\ Cache'.cache[key].ttl = new
                /\ new \in DOMAIN Cache'.expiration
                /\ Cache'.expiration[new] = key
                /\ old # new => old \notin DOMAIN Cache'.expiration

C7_RefreshOnGet == [][C7_Step]_vars

\* a get hit its key at its expiry instant, after the first tick, and moved the
\* expiry on by d
C7_Witness ==
    /\ IsTTL /\ Cache.updateAgeOnGet
    /\ last.op = "get" /\ last.ok
    /\ now > Cache.expiry
    /\ last.old = now
    /\ Cache.cache[last.key].ttl = now + Cache.expiry

\* C8: both engines: after add(K, V), while K is stored, K's entry holds V,
\* whether K was new or stored with another value; and a get(K) that follows
\* the add directly, with K stored and the clock not past K's expiry, returns
\* (V, true).
C8_Stored ==
    (last.op = "add" /\ last.key \in StoredKeys(Cache)) =>
        EntryOf(Cache, last.key).value = last.arg

C8_Step ==
    /\ C8_Stored'
    /\ (/\ Did("get")
        /\ last.op = "add" /\ last.key = last'.key
        /\ last.key \in StoredKeys(Cache)
        /\ now <= EntryOf(Cache, last.key).ttl)
       => last'.ok /\ last'.value = last.arg

C8_RoundTrip == [][C8_Step]_vars

\* a get returned the value of the add just before it, one tick after the add
C8_Witness ==
    /\ last.op = "get" /\ last.prev = last.key
    /\ last.ok /\ last.value = 2
    /\ last.old = now

\* C9: both engines: right after clear the size is 0 and no key is found; a
\* clear of a cleared engine changes nothing; and from a clear on, every call
\* returns what it returns on an engine constructed anew with the same
\* configuration at the time of the clear, and leaves the same entries.
Norm(c) == [c EXCEPT !.isNil = FALSE]

C9_ClearIsFresh ==
    /\ last.op = "clear" =>
          /\ ICache_size(Cache) = 0
          /\ \A key \in KeySet : ~ICache_get(Cache, key, now).ok
          /\ ICache_clear(Cache) = Cache
    /\ fresh.on =>
          /\ Norm(Cache) = Norm(fresh.c)
          /\ last.value = fresh.value /\ last.ok = fresh.ok /\ last.n = fresh.n

\* after a clear, an add has evicted from the cleared engine
C9_Witness ==
    /\ fresh.on /\ last.op = "add" /\ last.evicted # {}
    /\ Cache.maxEntries = 1 /\ ICache_size(Cache) = 1

\* C10: facade, any goroutines calling Add, Get, Remove, Size and Clear: at
\* most one goroutine is between Lock and Unlock, and the mutex is locked
\* exactly then, so the engine calls and hooks of two calls never interleave;
\* the engine and every call's results are those of running the calls one at a
\* time in lock-acquisition order.
InCall(t) ==
    \/ pc[t] \in {"engine", "callback", "unlock"}
    \/ pc[t] = "panic" /\ ~crashed

Returned(r) == [value |-> r.value, ok |-> r.ok, n |-> r.n]

C10_Serialized ==
    /\ Cardinality({t \in Threads : InCall(t)}) <= 1
    /\ lock <=> \E t \in Threads : InCall(t)
    /\ \A t \in Threads : InCall(t) => acq \in {<<>>, <<t>>}
    /\ Cache = serial
    /\ \A t \in Threads : Returned(ret[t]) = Returned(sret[t])

\* one goroutine is about to return a hit from Get while another waits in Lock
C10_Witness ==
    \E t, u \in Threads :
        /\ t # u
        /\ pc[t] = "unlock" /\ call[t].op = "get" /\ ret[t].ok
        /\ pc[u] = "lock" /\ call[u].op = "add"

\* C11: facade: a call of Add, Get or Remove runs the user function of its own
\* hook exactly once when it is set and never when it is not, whatever the
\* engine finds; the hook runs with the mutex locked, for Get before the engine
\* call and for Add and Remove after it; Size and Clear run no hook.
HooksDue(t) == IF HookSet(Config.Callbacks, call[t].op) THEN 1 ELSE 0

\* the engine call of the goroutine's facade call has been made
EngineDone(t) == \A i \in 1..Len(acq) : acq[i] # t

C11_HookOncePerCall ==
    \A t \in Threads :
        /\ pc[t] \in {"idle", "lock"} => ret[t].hooks = 0
        /\ pc[t] = "callback" =>
              /\ lock
              /\ ret[t].hooks = 0
              /\ call[t].op \in {"add", "get", "remove"}
              /\ EngineDone(t) <=> call[t].op \in {"add", "remove"}
        /\ pc[t] = "engine" =>
              /\ lock
              /\ ret[t].hooks = IF call[t].op = "get" THEN HooksDue(t) ELSE 0
        /\ pc[t] = "unlock" =>
              /\ lock
              /\ EngineDone(t)
              /\ ret[t].hooks = HooksDue(t)

\* a Get that misses and a Remove that finds nothing return with their hook run
\* once
C11_Witness ==
    \E t \in Threads :
        /\ pc[t] = "unlock" /\ ret[t].hooks = 1
        /\ \/ call[t].op = "get" /\ ~ret[t].ok
           \/ call[t].op = "remove" /\ call[t].key \notin StoredKeys(Cache)
        /\ ICache_size(Cache) = 1

\* C12: facade: with every configuration NewCacheConfig accepts, a nil callback
\* handler included, no call of Add, Get or Remove panics.
C12_NoPanic ==
    /\ ~crashed
    /\ \A t \in Threads : pc[t] # "panic"

\* C13: both engines: a stored entry leaves the store only by remove of its
\* key, by clear, by a get of its key made after its expiry, or by an add of a
\* key that is not stored and takes the count over maxEntries > 0; every other
\* step, the passing of time included, removes no entry.
C13_Step ==
    LET gone == StoredKeys(Cache) \ StoredKeys(Cache')
    IN  \/ gone = {}
        \/ Did("remove") /\ gone = {last'.key}
        \/ Did("clear")
        \/ /\ Did("get")
           /\ gone = {last'.key}
           /\ now > EntryOf(Cache, last'.key).ttl
        \/ /\ Did("add")
           /\ last'.key \notin StoredKeys(Cache)
           /\ Cache.maxEntries > 0
           /\ Cardinality(StoredKeys(Cache)) + 1 > Cache.maxEntries

C13_LazyEvictionOnly == [][C13_Step]_vars

\* an entry past its expiry is still stored after time has passed and size()
\* was called
C13_Witness ==
    /\ last.op = "size"
    /\ last.n = 1
    /\ \E e \in EntriesOf(Cache) : e.ttl < now

\* The Go scheduler runs every runnable goroutine, so a goroutine that holds
\* the mutex goes on to its engine call, its hook and its deferred Unlock; a
\* goroutine waiting in Lock is handed the mutex once it has waited 1ms
\* (sync.Mutex starvation mode), so it cannot be overtaken for ever.
FacadeFairness ==
    \A t \in Threads :
        /\ SF_vars(Lock(t))
        /\ WF_vars(Engine(t))
        /\ WF_vars(Callback(t))
        /\ WF_vars(Unlock(t))
        /\ WF_vars(Unwind(t))

FacadeFairSpec == FacadeSpec /\ FacadeFairness

\* C14: facade, several goroutines, fair scheduling: every call that was issued
\* eventually returns to its caller (with the mutex released by it).
C14_EveryCallReturns ==
    \A t \in Threads : (pc[t] # "idle") ~> (pc[t] = "idle")

\* C15: TTL engine: every stored key has exactly one instant in the expiry
\* index, the expiry of its entry, and that instant maps back to the key.
C15_IndexComplete ==
    IsTTL =>
        \A key \in DOMAIN Cache.cache :
            /\ Cache.cache[key].ttl \in DOMAIN Cache.expiration
            /\ Cache.expiration[Cache.cache[key].ttl] = key
            /\ \A i \in DOMAIN Cache.expiration :
                  Cache.expiration[i] = key => i = Cache.cache[key].ttl

\* C16: LRU engine, not cleared: the keys of the map are the keys of the list
\* elements, no key is in the list twice, and size() is the number of keys.
C16_MapListBijection ==
    IsLRU /\ ~Cache.isNil =>
        /\ Cache.cache = {Cache.ll[i].key : i \in 1..Len(Cache.ll)}
        /\ \A i, j \in 1..Len(Cache.ll) : Cache.ll[i].key = Cache.ll[j].key => i = j
        /\ lruCache_size(Cache) = Cardinality(Cache.cache)

\* two entries are left after an add has evicted a third
C16_Witness ==
    /\ IsLRU /\ ~Cache.isNil
    /\ last.op = "add" /\ last.evicted # {}
    /\ Len(Cache.ll) = 2

\* C17: LRU engine: add(K, V) of a stored key K, expired or not, puts K's
\* entry at the front of the list with value V and expiry now + ttl, evicts
\* nothing, and leaves the other entries as they were, in the same order.
C17_Step ==
    Did("add") /\ IsLRU /\ last'.key \in StoredKeys(Cache) =>
        /\ Cache'.ll[1] = entry(last'.key, now + Cache.expiry, last'.arg)
        /\ Tail(Cache'.ll) = RemoveAt(Cache.ll, ElementOf(Cache.ll, last'.key))
        /\ Cache'.cache = Cache.cache
        /\ Len(Cache'.ll) = Len(Cache.ll)
        /\ last'.evicted = {}

C17_UpdateInPlace == [][C17_Step]_vars

\* a key read by a hit is added again while two other entries are stored
C17_Witness ==
    /\ IsLRU
    /\ last.op = "add" /\ last.prev = last.key
    /\ Len(Cache.ll) = 3
    /\ Cache.ll[1].key = last.key

\* C18: both engines, maxEntries >= 1: add(K, V) returns with K stored, and
\* every entry its capacity eviction removed has another key (the new entry
\* has not expired when add returns: its expiry is now + ttl with ttl >= 1).
C18_Step ==
    Did("add") /\ Cache.maxEntries >= 1 =>
        /\ last'.key \in StoredKeys(Cache')
        /\ \A e \in last'.evicted : e.key # last'.key

C18_AddKeepsNewKey == [][C18_Step]_vars

\* C19: LRU-with-TTL engine and TTL engine with updateAgeOnGet = false: the
\* expiry of a stored entry is set by an add of its key, to the instant of the
\* add plus ttl, and by no other step, so no get changes it; a get of a stored
\* key made after that expiry reports not found and removes the entry.
NoRefreshOnGet == FiniteTTL /\ (IsTTL => ~Cache.updateAgeOnGet)

C19_Step ==
    NoRefreshOnGet =>
        /\ \A key \in StoredKeys(Cache') :
              \/ /\ key \in StoredKeys(Cache)
                 /\ EntryOf(Cache', key).ttl = EntryOf(Cache, key).ttl
              \/ /\ Did("add") /\ last'.key = key
                 /\ EntryOf(Cache', key).ttl = now + Cache.expiry
        /\ Did("get") /\ last'.key \in StoredKeys(Cache)
              /\ now > EntryOf(Cache, last'.key).ttl
              => ~last'.ok /\ last'.key \notin StoredKeys(Cache')

C19_GetKeepsExpiry == [][C19_Step]_vars

\* a hit at the expiry instant itself, reached through an earlier hit, leaves
\* the expiry where the add put it
C19_Witness ==
    /\ NoRefreshOnGet
    /\ last.op = "get" /\ last.ok
    /\ now >= 1
    /\ EntryOf(Cache, last.key).ttl = now
    /\ last.old = now

\* every lookup c.expiration[k] the purge loop makes finds a stored key
RECURSIVE PurgeFindsStored(_, _, _)
PurgeFindsStored(c, expKeys, t) ==
    IF expKeys = <<>> THEN TRUE
    ELSE LET k == Head(expKeys)
         IN  IF Cardinality(DOMAIN c.cache) <= c.maxEntries /\ k > t
             THEN TRUE
             ELSE /\ k \in DOMAIN c.expiration
                  /\ c.expiration[k] \in DOMAIN c.cache
                  /\ PurgeFindsStored(ttlCache_remove(c, c.expiration[k]), Tail(expKeys), t)

\* the engine as add(key, value) has it when it tests the capacity
Inserted(c, key, t) ==
    [c EXCEPT !.cache = MapPut(c.cache, key, entry(key, t + c.expiry, 1)),
              !.expiration = MapPut(c.expiration, t + c.expiry, key)]

\* C20: TTL engine: every (instant, key) pair of the expiry index names a
\* stored key whose expiry is that instant, the index has no more entries than
\* the store, and a purge started by an add now would look up stored keys only.
C20_NoStaleIndex ==
    IsTTL =>
        /\ \A i \in DOMAIN Cache.expiration :
              /\ Cache.expiration[i] \in DOMAIN Cache.cache
              /\ Cache.cache[Cache.expiration[i]].ttl = i
        /\ Cardinality(DOMAIN Cache.expiration) <= Cardinality(DOMAIN Cache.cache)
        /\ \A key \in KeySet \ DOMAIN Cache.cache :
              LET c2 == Inserted(Cache, key, now)
              IN  c2.maxEntries # 0 /\ Cardinality(DOMAIN c2.cache) > c2.maxEntries
                      => PurgeFindsStored(c2, SortAscending(DOMAIN c2.expiration), now)

\* an add has purged while two stored entries share one instant of the index
C20_Witness ==
    /\ IsTTL
    /\ last.op = "add" /\ last.evicted # {}
    /\ Cardinality(DOMAIN Cache.cache) = 2
    /\ Cardinality(DOMAIN Cache.expiration) = 1

====
